---- MODULE Spec2Model ----
(***************************************************************************)
(* A model of ratelimitcache.py: the decorator classes ratelimit,          *)
(* ratelimit_post, ratelimit_post_noip and ratelimit_post_noip_forclass,   *)
(* one limiter instance mounted in front of one view, the Django cache it  *)
(* counts in, and the wall clock its bucket keys are derived from.         *)
(*                                                                         *)
(* Strings are TLA+ strings, so that a cache key is the very text the code *)
(* builds.  Python's None is modelled by the empty string where the code   *)
(* only tests truthiness (key_field).  A dict is a function; a missing     *)
(* entry is a missing element of its DOMAIN.                               *)
(***************************************************************************)
EXTENDS Integers, Sequences, FiniteSets, TLC

VARIABLES
    cls,        \* the class of the limiter instance (self.__class__)
    minutes,    \* self.minutes
    requests,   \* self.requests
    key_field,  \* self.key_field ("" for None)
    backend,    \* the configured django cache backend
    now,        \* wall clock, seconds since 2009-12-31 00:00:00 local time
    cache,      \* the store: key -> [val, exp]
    pc,         \* per worker: position inside view_wrapper
    request,    \* per worker: the request being evaluated
    keys,       \* per worker: the result of keys_to_check
    counts,     \* per worker: the dict returned by get_counters
    key,        \* per worker: the result of current_key
    got,        \* per worker: the value read by cache.get on the fallback path
    outcome,    \* per worker: how view_wrapper ended
    fn_calls,   \* per worker: calls of the wrapped view in this evaluation
    began,      \* per worker: clock value when the evaluation began
    kmin,       \* per worker: minute of the datetime.now() of keys_to_check
    cmin,       \* per worker: minute of the datetime.now() of current_key
    prior,      \* per worker: completed increments in the window when it was read
    before,     \* history, kept for a worker that runs alone: the store when
                \* its evaluation began
    ops,        \* per worker: store operations performed by this evaluation
    hits,       \* history: <<identity, minute>> -> completed cache_incr calls
    passed,     \* history: <<identity, minute>> -> counted requests that were
                \* let through to the view
    started,    \* history: number of requests dispatched so far
    ticks,      \* history: number of clock ticks so far
    inputs      \* the requests the clients send

vars == <<cls, minutes, requests, key_field, backend, now, cache, pc, request,
          keys, counts, key, got, outcome, fn_calls, began, kmin, cmin, prior,
          before, ops, hits, passed, started, ticks, inputs>>

policy == <<cls, minutes, requests, key_field, backend, inputs>>
locals == <<request, keys, counts, key, got, outcome, fn_calls, began, kmin,
            cmin, prior, before, ops>>

-----------------------------------------------------------------------------
(* Bounds of the model.                                                    *)

MaxStarted == 3        \* requests dispatched in one behaviour
MaxTicks == 3          \* clock ticks in one behaviour
TickSeconds == 40      \* seconds per clock tick
StartClock == 86320    \* the clock starts at 2009-12-31 23:58:40

\* the options (minutes, requests) the limiters of the model are constructed with
Options == {<<1, 1>>, <<2, 2>>}

-----------------------------------------------------------------------------
(* Python values.                                                          *)

None == ""
EmptyDict == [x \in {} |-> ""]
DictGet(d, k, default) == IF k \in DOMAIN d THEN d[k] ELSE default
Truthy(s) == s # ""

RECURSIVE SumOver(_, _)
SumOver(d, S) ==
    IF S = {} THEN 0
    ELSE LET k == CHOOSE x \in S : TRUE IN d[k] + SumOver(d, S \ {k})

\* sum(int(x) for x in d.values())
DictSum(d) == SumOver(d, DOMAIN d)

\* hashlib.sha1(value).hexdigest() on the values the requests carry
Sha1Hex(value) ==
    CASE value = ""      -> "da39a3ee5e6b4b0d3255bfef95601890afd80709"
      [] value = "alice" -> "522b276a356bdf39013dfabea2cd43e141ecc9e8"
      [] value = "bob"   -> "48181acd22b3edaebc8a447868a7df7ce629920a"

-----------------------------------------------------------------------------
(* datetime: strftime('%Y%m%d%H%M') of a clock value.                      *)

Digits == <<"0", "1", "2", "3", "4", "5", "6", "7", "8", "9">>
TwoDigits(n) == Digits[(n \div 10) + 1] \o Digits[(n % 10) + 1]

\* %Y%m%d for the days the model's clock covers
DateStr(day) ==
    CASE day = 0 -> "20091231"
      [] day = 1 -> "20100101"

StrfTime(t) ==
    DateStr(t \div 86400) \o TwoDigits((t % 86400) \div 3600)
                          \o TwoDigits((t % 3600) \div 60)

\* mutant: timedelta(seconds = minute)
MinusSeconds(t, minute) == t - minute

\* now - timedelta(minutes = minute)
MinusMinutes(t, minute) == t - 60 * minute

MinuteOf(t) == t \div 60

-----------------------------------------------------------------------------
(* The limiter's methods.                                                  *)

prefix == "ratelimit-"

PostClasses == {"ratelimit_post", "ratelimit_post_noip",
                "ratelimit_post_noip_forclass"}
NoIpClasses == {"ratelimit_post_noip", "ratelimit_post_noip_forclass"}
Classes == {"ratelimit"} \cup PostClasses

\* mutant: the POST classes limit every method
should_ratelimit_always(req) == TRUE

should_ratelimit(req) ==
    IF cls \in PostClasses THEN req.method = "POST" ELSE TRUE

\* mutant: a minute short of the window instead of a minute beyond it
expire_after_short == (minutes - 1) * 60

expire_after == (minutes + 1) * 60

\* ratelimit.key_extra
key_extra_base(req) == DictGet(req.META, "REMOTE_ADDR", "")

\* mutant: the designated field is left out of the key
key_extra_post_no_field(req) == key_extra_base(req)

\* ratelimit_post.key_extra
key_extra_post(req) ==
    IF Truthy(key_field)
    THEN key_extra_base(req) \o "-" \o Sha1Hex(DictGet(req.POST, key_field, ""))
    ELSE key_extra_base(req)

\* ratelimit_post_noip.key_extra raises NameError when key_field is set:
\* the name sha is bound nowhere in the module.
key_extra_raises(req) == cls \in NoIpClasses /\ Truthy(key_field)

key_extra(req) ==
    CASE cls = "ratelimit"      -> key_extra_base(req)
      [] cls = "ratelimit_post" -> key_extra_post(req)
      [] cls \in NoIpClasses    -> ""

BucketKey(extra, t) == prefix \o extra \o "-" \o StrfTime(t)

\* mutant: only the current minute is read
keys_to_check_current_only(req, t) == <<BucketKey(key_extra(req), t)>>

\* mutant: range(self.minutes) taken two minutes too far back
keys_to_check_stale(req, t) ==
    [i \in 1..minutes |-> BucketKey(key_extra(req), MinusMinutes(t, i + 1))]

keys_to_check(req, t) ==
    [i \in 1..minutes |-> BucketKey(key_extra(req), MinusMinutes(t, i - 1))]

current_key(req, t) == BucketKey(key_extra(req), t)

-----------------------------------------------------------------------------
(* The store (django.core.cache.cache; cache._cache is the memcached       *)
(* client when the backend is memcached, and is missing or has no add      *)
(* otherwise, which raises AttributeError).                                *)

Backends == {"memcached", "locmem"}

Present(k) == k \in DOMAIN cache

Put(store, k, v, e) ==
    [x \in DOMAIN store \cup {k} |-> IF x = k THEN [val |-> v, exp |-> e]
                                     ELSE store[x]]

\* mutant: every counter of the store is returned, whatever keys are asked for
cache_get_many_all(ks) == [k \in DOMAIN cache |-> cache[k].val]

\* cache.get_many(keys)
cache_get_many(ks) ==
    [k \in {ks[i] : i \in DOMAIN ks} \cap DOMAIN cache |-> cache[k].val]

\* cache.get(key, 0)
cache_get(k, default) == IF Present(k) THEN cache[k].val ELSE default

\* mutants of add: the counter is created at 1; an existing counter is reset
memcache_add_one(k, ttl) == IF Present(k) THEN cache ELSE Put(cache, k, 1, now + ttl)
memcache_add_overwrites(k, ttl) == Put(cache, k, 0, now + ttl)

\* cache._cache.add(key, '0', time=...)
memcache_add(k, ttl) == IF Present(k) THEN cache ELSE Put(cache, k, 0, now + ttl)

\* mutants of incr: it adds 2; it adds nothing
memcache_incr_twice(k) ==
    IF Present(k) THEN Put(cache, k, cache[k].val + 2, cache[k].exp) ELSE cache
memcache_incr_nothing(k) == cache

\* cache._cache.incr(key)
memcache_incr(k) ==
    IF Present(k) THEN Put(cache, k, cache[k].val + 1, cache[k].exp) ELSE cache

\* mutant: set stores a fresh counter whatever value it is given
cache_set_fresh(k, v, ttl) == Put(cache, k, 1, now + ttl)

\* cache.set(key, value, timeout)
cache_set(k, v, ttl) == Put(cache, k, v, now + ttl)

\* the store's own expiry, at clock value t
Expired(store, t) == [k \in {x \in DOMAIN store : store[x].exp > t} |-> store[k]]

\* one more completed cache_incr for entry k of the history
Bump(h, k) ==
    [x \in DOMAIN h \cup {k} |-> IF x \in DOMAIN h
                                 THEN (IF x = k THEN h[x] + 1 ELSE h[x])
                                 ELSE 1]

-----------------------------------------------------------------------------
(* Requests.                                                               *)

Addresses == {"1.2.3.4"}
Usernames == {"alice"}
Metas == {EmptyDict} \cup {[REMOTE_ADDR |-> a] : a \in Addresses}
Posts == {EmptyDict} \cup {[username |-> u] : u \in Usernames}
Requests ==
    {[method |-> "GET", META |-> m, POST |-> EmptyDict] : m \in Metas}
    \cup {[method |-> "POST", META |-> m, POST |-> p] : m \in Metas, p \in Posts}

\* the requests sent when two workers run: a POST with and without address
ConcRequests ==
    {[method |-> "POST", META |-> m, POST |-> EmptyDict] : m \in Metas}

NoRequest == [method |-> "", META |-> EmptyDict, POST |-> EmptyDict]

Workers == DOMAIN pc

-----------------------------------------------------------------------------
(* Construction: ratelimit.__init__ sets every option it is given.         *)
(* The limiters of Init carry a policy of the documented domain            *)
(* (minutes >= 1, requests >= 1); InitAnyOptions draws the options from a  *)
(* wider set.                                                              *)

KeyFields(c) == IF c = "ratelimit" THEN {None} ELSE {None, "username"}

InitRest(W, reqs) ==
    /\ inputs = reqs
    /\ now = StartClock
    /\ cache = EmptyDict
    /\ pc = [w \in W |-> "idle"]
    /\ request = [w \in W |-> NoRequest]
    /\ keys = [w \in W |-> <<>>]
    /\ counts = [w \in W |-> EmptyDict]
    /\ key = [w \in W |-> ""]
    /\ got = [w \in W |-> 0]
    /\ outcome = [w \in W |-> ""]
    /\ fn_calls = [w \in W |-> 0]
    /\ began = [w \in W |-> 0]
    /\ kmin = [w \in W |-> 0]
    /\ cmin = [w \in W |-> 0]
    /\ prior = [w \in W |-> 0]
    /\ before = [w \in W |-> EmptyDict]
    /\ ops = [w \in W |-> 0]
    /\ hits = << >>
    /\ passed = << >>
    /\ started = 0
    /\ ticks = 0

Init ==
    /\ cls \in Classes
    /\ \E o \in Options : minutes = o[1] /\ requests = o[2]
    /\ key_field \in KeyFields(cls)
    /\ backend \in Backends
    /\ InitRest({1}, Requests)

-----------------------------------------------------------------------------
(* History: the completed increments and the requests let through, by     *)
(* identity and minute.                                                    *)

\* Whom a request is counted against: the attributes of the request that
\* the limiter's class and options make part of the key ("" for a missing
\* or unused one).
Identity(req) ==
    [addr  |-> IF cls \in NoIpClasses THEN ""
               ELSE DictGet(req.META, "REMOTE_ADDR", ""),
     field |-> IF cls \in PostClasses /\ Truthy(key_field)
               THEN DictGet(req.POST, key_field, "") ELSE ""]

HitsAt(id, m) == IF <<id, m>> \in DOMAIN hits THEN hits[<<id, m>>] ELSE 0

RECURSIVE HitsIn(_, _, _)
\* completed increments for identity id in the n minutes that end with m
HitsIn(id, m, n) ==
    IF n = 0 THEN 0 ELSE HitsAt(id, m) + HitsIn(id, m - 1, n - 1)

PassedAt(id, m) == IF <<id, m>> \in DOMAIN passed THEN passed[<<id, m>>] ELSE 0

RECURSIVE PassedIn(_, _, _)
\* counted requests of identity id let through in the n minutes that end with m
PassedIn(id, m, n) ==
    IF n = 0 THEN 0 ELSE PassedAt(id, m) + PassedIn(id, m - 1, n - 1)

-----------------------------------------------------------------------------
(* view_wrapper, one action per statement that reads the clock or calls    *)
(* the store.                                                              *)

\* lines 26-29, up to the call of cache_get_many: should_ratelimit, and
\* keys_to_check with its datetime.now()
Start(w, req) ==
    /\ pc[w] \in {"idle", "done"}
    /\ started < MaxStarted
    /\ started' = started + 1
    /\ request' = [request EXCEPT ![w] = req]
    /\ began' = [began EXCEPT ![w] = now]
    /\ before' = [before EXCEPT ![w] = IF Workers = {w} THEN cache ELSE EmptyDict]
    /\ counts' = [counts EXCEPT ![w] = EmptyDict]
    /\ key' = [key EXCEPT ![w] = ""]
    /\ got' = [got EXCEPT ![w] = 0]
    /\ cmin' = [cmin EXCEPT ![w] = 0]
    /\ prior' = [prior EXCEPT ![w] = 0]
    /\ ops' = [ops EXCEPT ![w] = 0]
    /\ IF ~should_ratelimit(req)
       THEN /\ pc' = [pc EXCEPT ![w] = "done"]
            /\ outcome' = [outcome EXCEPT ![w] = "fn"]
            /\ fn_calls' = [fn_calls EXCEPT ![w] = 1]
            /\ keys' = [keys EXCEPT ![w] = <<>>]
            /\ kmin' = [kmin EXCEPT ![w] = 0]
       ELSE IF key_extra_raises(req)
       THEN /\ pc' = [pc EXCEPT ![w] = "done"]
            /\ outcome' = [outcome EXCEPT ![w] = "NameError"]
            /\ fn_calls' = [fn_calls EXCEPT ![w] = 0]
            /\ keys' = [keys EXCEPT ![w] = <<>>]
            /\ kmin' = [kmin EXCEPT ![w] = 0]
       ELSE /\ pc' = [pc EXCEPT ![w] = "get_many"]
            /\ outcome' = [outcome EXCEPT ![w] = ""]
            /\ fn_calls' = [fn_calls EXCEPT ![w] = 0]
            /\ keys' = [keys EXCEPT ![w] = keys_to_check(req, now)]
            /\ kmin' = [kmin EXCEPT ![w] = MinuteOf(now)]
    /\ UNCHANGED <<policy, now, cache, hits, passed, ticks>>

\* line 29 / 148: get_counters -> cache_get_many
GetMany(w) ==
    /\ pc[w] = "get_many"
    /\ counts' = [counts EXCEPT ![w] = cache_get_many(keys[w])]
    /\ prior' = [prior EXCEPT ![w] = HitsIn(Identity(request[w]), kmin[w], minutes)]
    /\ ops' = [ops EXCEPT ![w] = @ + 1]
    /\ pc' = [pc EXCEPT ![w] = "current_key"]
    /\ UNCHANGED <<policy, now, cache, request, keys, key, got, outcome,
                   fn_calls, began, kmin, cmin, before, hits, passed, started, ticks>>

\* line 32 / 151: the argument of cache_incr, with its own datetime.now();
\* then cache_incr tries cache._cache.add, which raises AttributeError
\* unless the backend is memcached
CurrentKey(w) ==
    /\ pc[w] = "current_key"
    /\ key' = [key EXCEPT ![w] = current_key(request[w], now)]
    /\ cmin' = [cmin EXCEPT ![w] = MinuteOf(now)]
    /\ pc' = [pc EXCEPT ![w] = IF backend = "memcached" THEN "add" ELSE "get"]
    /\ UNCHANGED <<policy, now, cache, request, keys, counts, got, outcome,
                   fn_calls, began, kmin, prior, before, ops, hits, passed, started,
                   ticks>>

\* mutants of the test: a strict comparison; the request counting itself
Failed_strict(w) == DictSum(counts[w]) > requests
Failed_counting_itself(w) == DictSum(counts[w]) + 1 >= requests

\* the test of line 35 / 154
Failed(w) == DictSum(counts[w]) >= requests

\* lines 35-38 / 154-157, which touch neither the clock nor the store and
\* so are taken together with the store call that precedes them
Decide(w) ==
    /\ IF Failed(w)
       THEN /\ outcome' = [outcome EXCEPT ![w] = "forbidden"]
            /\ UNCHANGED <<fn_calls, passed>>
       ELSE /\ outcome' = [outcome EXCEPT ![w] = "fn"]
            /\ fn_calls' = [fn_calls EXCEPT ![w] = @ + 1]
            /\ passed' = Bump(passed, <<Identity(request[w]), cmin[w]>>)
    /\ pc' = [pc EXCEPT ![w] = "done"]

\* line 47
CacheAdd(w) ==
    /\ pc[w] = "add"
    /\ cache' = memcache_add(key[w], expire_after)
    /\ ops' = [ops EXCEPT ![w] = @ + 1]
    /\ pc' = [pc EXCEPT ![w] = "incr"]
    /\ UNCHANGED <<policy, now, request, keys, counts, key, got, outcome,
                   fn_calls, began, kmin, cmin, prior, before, hits, passed, started,
                   ticks>>

\* line 48, then lines 35-38
CacheIncr(w) ==
    /\ pc[w] = "incr"
    /\ cache' = memcache_incr(key[w])
    /\ hits' = Bump(hits, <<Identity(request[w]), cmin[w]>>)
    /\ ops' = [ops EXCEPT ![w] = @ + 1]
    /\ Decide(w)
    /\ UNCHANGED <<policy, now, request, keys, counts, key, got, began, kmin,
                   cmin, prior, before, started, ticks>>

\* line 50, the inner cache.get(key, 0)
FallbackGet(w) ==
    /\ pc[w] = "get"
    /\ got' = [got EXCEPT ![w] = cache_get(key[w], 0)]
    /\ ops' = [ops EXCEPT ![w] = @ + 1]
    /\ pc' = [pc EXCEPT ![w] = "set"]
    /\ UNCHANGED <<policy, now, cache, request, keys, counts, key, outcome,
                   fn_calls, began, kmin, cmin, prior, before, hits, passed, started,
                   ticks>>

\* line 50, the outer cache.set(key, ... + 1, expire_after()), then lines 35-38
FallbackSet(w) ==
    /\ pc[w] = "set"
    /\ cache' = cache_set(key[w], got[w] + 1, expire_after)
    /\ hits' = Bump(hits, <<Identity(request[w]), cmin[w]>>)
    /\ ops' = [ops EXCEPT ![w] = @ + 1]
    /\ Decide(w)
    /\ UNCHANGED <<policy, now, request, keys, counts, key, got, began, kmin,
                   cmin, prior, before, started, ticks>>

Busy(w) == pc[w] \notin {"idle", "done"}

\* what a worker holds between two requests
Reset(f, blank) == [w \in Workers |-> IF pc[w] = "done" THEN blank ELSE f[w]]

\* The clock advances and the store drops what has expired.  One
\* evaluation takes less than a minute.  A worker that has returned its
\* response is idle again.
Tick ==
    /\ ticks < MaxTicks
    /\ \A w \in Workers : Busy(w) => now + TickSeconds - began[w] < 60
    /\ now' = now + TickSeconds
    /\ cache' = Expired(cache, now + TickSeconds)
    /\ ticks' = ticks + 1
    /\ pc' = Reset(pc, "idle")
    /\ request' = Reset(request, NoRequest)
    /\ keys' = Reset(keys, <<>>)
    /\ counts' = Reset(counts, EmptyDict)
    /\ key' = Reset(key, "")
    /\ got' = Reset(got, 0)
    /\ outcome' = Reset(outcome, "")
    /\ fn_calls' = Reset(fn_calls, 0)
    /\ began' = Reset(began, 0)
    /\ kmin' = Reset(kmin, 0)
    /\ cmin' = Reset(cmin, 0)
    /\ prior' = Reset(prior, 0)
    /\ before' = Reset(before, EmptyDict)
    /\ ops' = Reset(ops, 0)
    /\ UNCHANGED <<policy, hits, passed, started>>

Next ==
    \/ \E w \in Workers, req \in inputs : Start(w, req)
    \/ \E w \in Workers : GetMany(w)
    \/ \E w \in Workers : CurrentKey(w)
    \/ \E w \in Workers : CacheAdd(w)
    \/ \E w \in Workers : CacheIncr(w)
    \/ \E w \in Workers : FallbackGet(w)
    \/ \E w \in Workers : FallbackSet(w)
    \/ Tick

Spec == Init /\ [][Next]_vars

\* Two workers share the limiter and the store.
InitConc ==
    /\ cls = "ratelimit"
    /\ \E o \in Options : minutes = o[1] /\ requests = o[2]
    /\ key_field = None
    /\ backend \in Backends
    /\ InitRest({1, 2}, ConcRequests)

SpecConc == InitConc /\ [][Next]_vars

\* Two workers share the limiter and a store without cache._cache.add:
\* every cache_incr takes the fallback of line 50.
InitRace ==
    /\ cls = "ratelimit"
    /\ \E o \in Options : minutes = o[1] /\ requests = o[2]
    /\ key_field = None
    /\ backend = "locmem"
    /\ InitRest({1, 2}, ConcRequests)

NextRace ==
    \/ \E w \in Workers, req \in inputs : Start(w, req)
    \/ \E w \in Workers : GetMany(w)
    \/ \E w \in Workers : CurrentKey(w)
    \/ \E w \in Workers : FallbackGet(w)
    \/ \E w \in Workers : FallbackSet(w)
    \/ Tick

SpecRace == InitRace /\ [][NextRace]_vars

\* Limiters constructed with options outside the documented domain.
AnyOptions == {<<0, 1>>, <<1, 0>>, <<0, 0>>}

InitAnyOptions ==
    /\ cls \in Classes
    /\ \E o \in AnyOptions : minutes = o[1] /\ requests = o[2]
    /\ key_field \in KeyFields(cls)
    /\ backend \in Backends
    /\ InitRest({1}, Requests)

SpecAnyOptions == InitAnyOptions /\ [][Next]_vars

\* The store fails.  No statement of view_wrapper, get_counters or
\* cache_incr catches anything but the AttributeError of line 49, so the
\* exception of a failing store call leaves view_wrapper at once: lines
\* 35-38 are not reached.  A call that fails has no effect on the store.
StoreCalls == {"get_many", "add", "incr", "get", "set"}

\* mutant: the limiter fails open, the view is called
Propagate_fail_open(w) ==
    /\ outcome' = [outcome EXCEPT ![w] = "fn"]
    /\ fn_calls' = [fn_calls EXCEPT ![w] = @ + 1]
    /\ pc' = [pc EXCEPT ![w] = "done"]

Propagate(w) ==
    /\ outcome' = [outcome EXCEPT ![w] = "raised in " \o pc[w]]
    /\ UNCHANGED fn_calls
    /\ pc' = [pc EXCEPT ![w] = "done"]

StoreFails(w) ==
    /\ pc[w] \in StoreCalls
    /\ ops' = [ops EXCEPT ![w] = @ + 1]
    /\ Propagate(w)
    /\ UNCHANGED <<policy, now, cache, request, keys, counts, key, got, began,
                   kmin, cmin, prior, before, hits, passed, started, ticks>>

NextFail ==
    \/ Next
    \/ \E w \in Workers : StoreFails(w)

\* Limiters of every class in front of a store that may fail.
InitFail ==
    /\ cls \in Classes
    /\ \E o \in Options : minutes = o[1] /\ requests = o[2]
    /\ key_field = None
    /\ backend \in Backends
    /\ InitRest({1}, ConcRequests)

SpecFail == InitFail /\ [][NextFail]_vars

-----------------------------------------------------------------------------
(* Vocabulary of the properties.                                           *)

\* the limiter applies to req: every request under ratelimit, the POSTs
\* under the POST-only classes
Applicable(req) == cls = "ratelimit" \/ req.method = "POST"

Allowed(w) == outcome[w] = "fn"
Denied(w) == outcome[w] = "forbidden"

\* worker w has finished evaluating an applicable request with a decision
Decided(w) ==
    pc[w] = "done" /\ Applicable(request[w]) /\ (Allowed(w) \/ Denied(w))

\* worker w has finished a request the limiter does not apply to
Skipped(w) == pc[w] = "done" /\ ~Applicable(request[w])

KeySet(w) == {keys[w][i] : i \in DOMAIN keys[w]}

\* the sum of the counters of the keys ks in store
WindowSum(store, ks) ==
    LET present == ks \cap DOMAIN store
        vals == [k \in present |-> store[k].val]
    IN  SumOver(vals, present)

\* the clock values and minutes a bucket key of the model can be derived from
Times ==
    {StartClock + j * TickSeconds - 60 * i : j \in 0..MaxTicks, i \in 0..4}
MinuteRange == {MinuteOf(t) : t \in Times}

\* the key-extras of the model's requests and the minutes of its clock,
\* with the bucket key of each
Extras ==
    {a \o f : a \in Addresses \cup {""},
              f \in {""} \cup {"-" \o Sha1Hex(u) : u \in Usernames \cup {""}}}
Minutes ==
    (MinuteOf(StartClock) - 4) .. MinuteOf(StartClock + MaxTicks * TickSeconds)
Buckets == [e \in Extras, m \in Minutes |-> BucketKey(e, 60 * m)]

\* the key-extra of the requests of identity id
ExtraOf(id) == key_extra(CHOOSE r \in inputs : Identity(r) = id)

\* the bucket that counts the requests of identity h[1] in minute h[2]
BucketOfHit(h) == Buckets[ExtraOf(h[1]), h[2]]

\* the minutes whose label a key of identity extra carries (parsing the key)
MinutesOfKey(extra, k) == {m \in MinuteRange : k = Buckets[extra, m]}

\* k is a bucket of the identity of request r
IsBucketOf(k, r) == \E t \in Times : k = current_key(r, t)

ValueIn(store, k) == IF k \in DOMAIN store THEN store[k].val ELSE 0

-----------------------------------------------------------------------------
(* C1 (as stated): for a fixed key and a fresh window, of the applicable   *)
(* requests evaluated one after another within one window the              *)
(* maxRequests-th is denied.  prior[w] + 1 is the rank of w's request      *)
(* among the requests of its key in its window.                            *)
C1_AsStated ==
    \A w \in Workers :
        (Decided(w) /\ prior[w] + 1 = requests) => Denied(w)

(* C1 (amended): for a fixed key and a fresh window, of the applicable     *)
(* requests evaluated one after another within one window the first        *)
(* maxRequests are allowed and the (maxRequests + 1)-th and every later    *)
(* one is denied.                                                          *)
C1_FirstDeniedIsNextAfterLimit ==
    \A w \in Workers :
        Decided(w) =>
            /\ (prior[w] + 1 <= requests => Allowed(w))
            /\ (prior[w] + 1 > requests => Denied(w))

C1_Witness ==
    \E w \in Workers :
        Decided(w) /\ requests = 2 /\ prior[w] = 2 /\ Denied(w)

-----------------------------------------------------------------------------
(* C2: an applicable request is denied exactly when the sum of the         *)
(* window's counters, as read from the store before the request's own      *)
(* increment, is >= maxRequests; that sum is the sum the store held when   *)
(* the evaluation began, so the own increment is no part of it.  A denied  *)
(* request does not reach the wrapped view, an allowed one calls it once.  *)
C2_DecisionRule ==
    \A w \in Workers :
        (pc[w] = "done" /\ Applicable(request[w])) =>
            /\ Denied(w) <=> (ops[w] > 0 /\ DictSum(counts[w]) >= requests)
            /\ Decided(w) => DictSum(counts[w]) = WindowSum(before[w], KeySet(w))
            /\ Denied(w) => fn_calls[w] = 0
            /\ Allowed(w) => fn_calls[w] = 1

\* a request allowed although its own increment brought the window to the limit
C2_Witness ==
    \E w \in Workers :
        /\ Decided(w) /\ Allowed(w)
        /\ DictSum(counts[w]) = requests - 1
        /\ WindowSum(cache, KeySet(w)) = requests

-----------------------------------------------------------------------------
(* C3: an applicable request that is evaluated alone raises exactly one    *)
(* counter, the bucket of its key for the minute of its current_key, by    *)
(* exactly 1 (creating it at 1 when absent) and changes no other counter,  *)
(* on either increment path and whether it is allowed or denied.  A        *)
(* counter may meanwhile leave the store by expiry only.                   *)
C3_OneIncrement ==
    \A w \in Workers :
        Decided(w) =>
            /\ MinutesOfKey(key_extra(request[w]), key[w]) = {cmin[w]}
            /\ key[w] \in DOMAIN cache
            /\ cache[key[w]].val = ValueIn(before[w], key[w]) + 1
            /\ \A k \in DOMAIN cache \ {key[w]} :
                   k \in DOMAIN before[w] /\ cache[k] = before[w][k]
            /\ \A k \in DOMAIN before[w] \ {key[w]} :
                   k \in DOMAIN cache \/ before[w][k].exp <= now

\* a denied request on the fallback path has raised its counter past the limit
C3_Witness ==
    \E w \in Workers :
        /\ Decided(w) /\ Denied(w) /\ backend = "locmem"
        /\ cache[key[w]].val = requests + 1

-----------------------------------------------------------------------------
(* C4: a request the applicability predicate rejects causes no store read  *)
(* and no store write, leaves every counter as it was and reaches the      *)
(* wrapped view, also when its key is over the limit.                      *)
C4_NotApplicable ==
    \A w \in Workers :
        Skipped(w) =>
            /\ ops[w] = 0
            /\ cache = before[w]
            /\ Allowed(w)
            /\ fn_calls[w] = 1

C4_Witness ==
    \E w \in Workers :
        /\ Skipped(w)
        /\ LET ks == keys_to_check(request[w], now)
           IN  WindowSum(cache, {ks[i] : i \in DOMAIN ks}) >= requests

-----------------------------------------------------------------------------
(* C5: the keys read for a decision are exactly windowMinutes pairwise     *)
(* distinct bucket keys, the i-th carrying the label of the minute i - 1   *)
(* before the minute of the clock reading, all with the same prefix and    *)
(* key-extra; nothing else is read.                                        *)
C5_WindowKeys ==
    \A w \in Workers :
        pc[w] \in {"get_many", "current_key"} =>
            /\ Len(keys[w]) = minutes
            /\ Cardinality(KeySet(w)) = minutes
            /\ \A i \in 1..minutes :
                   MinutesOfKey(key_extra(request[w]), keys[w][i])
                       = {kmin[w] - (i - 1)}
            /\ DOMAIN counts[w] \subseteq KeySet(w)

\* a window that spans midnight has been read
C5_Witness ==
    \E w \in Workers :
        /\ pc[w] = "current_key" /\ minutes = 2
        /\ keys[w][1] = BucketKey(key_extra(request[w]), 86400)
        /\ keys[w][2] = BucketKey(key_extra(request[w]), 86340)
        /\ DOMAIN counts[w] = KeySet(w)

-----------------------------------------------------------------------------
(* C6: requests of different identities are counted apart.  An evaluation  *)
(* for one identity changes no counter of any other identity (such a       *)
(* counter stays as it was or expires), and it is denied exactly when the  *)
(* requests of its own identity already counted in its window reach        *)
(* maxRequests, whatever was counted for other identities.                 *)
OtherExtras(w) ==
    {key_extra(r) : r \in {x \in Requests : Applicable(x)
                              /\ Identity(x) # Identity(request[w])}}

BucketsOf(extra) == {Buckets[extra, m] : m \in MinuteRange}

C6_IndependentCounts ==
    \A w \in Workers :
        Decided(w) =>
            /\ \A e \in OtherExtras(w) :
                   \A k \in BucketsOf(e) \cap (DOMAIN cache \cup DOMAIN before[w]) :
                       /\ k \in DOMAIN before[w]
                       /\ k \in DOMAIN cache => cache[k] = before[w][k]
                       /\ k \notin DOMAIN cache => before[w][k].exp <= now
            /\ Denied(w) <=> prior[w] >= requests

\* a request is allowed while another identity is at its limit in the same minute
C6_Witness ==
    \E w \in Workers :
        /\ Decided(w) /\ Allowed(w)
        /\ \E e \in OtherExtras(w) :
               ValueIn(cache, BucketKey(e, now)) >= requests

-----------------------------------------------------------------------------
(* C7: on the atomic path (add, then incr) no increment is lost or         *)
(* duplicated under any interleaving of two workers: a bucket counter in   *)
(* the store always equals the number of completed increments for its      *)
(* identity and minute, and a bucket that has been incremented is missing  *)
(* from the store only once its expiry time has passed.                    *)
C7_AtomicIncrements ==
    backend = "memcached" =>
        \A r \in inputs : \A m \in MinuteRange :
            LET k == Buckets[key_extra(r), m]
                n == HitsAt(Identity(r), m)
            IN  /\ k \in DOMAIN cache => cache[k].val = n
                /\ (k \notin DOMAIN cache /\ n > 0) =>
                       now >= 60 * (m + minutes + 1)

\* two evaluations that both read the window before either incremented
C7_Witness ==
    /\ backend = "memcached"
    /\ pc[1] = "done" /\ pc[2] = "done"
    /\ key[1] = key[2] /\ counts[1] = counts[2]
    /\ cache[key[1]].val = DictSum(counts[1]) + 2

-----------------------------------------------------------------------------
(* C8: a bucket key labelled with minute m is read only by evaluations     *)
(* whose window was taken in the minutes m .. m + windowMinutes - 1, is    *)
(* written only by evaluations whose current_key was taken in minute m,    *)
(* and no store call on it happens at or after minute                      *)
(* m + windowMinutes + 1 (one evaluation lasting less than a minute); a    *)
(* counter leaves the store by expiry only.                                *)
C8_InWindow(w) ==
    /\ pc[w] = "get_many" =>
           \A i \in DOMAIN keys[w] :
               LET ms == MinutesOfKey(key_extra(request[w]), keys[w][i])
               IN  /\ ms # {}
                   /\ \A m \in ms : /\ kmin[w] \in m..(m + minutes - 1)
                                    /\ MinuteOf(now) < m + minutes + 1
    /\ pc[w] \in {"add", "incr", "get", "set"} =>
           LET ms == MinutesOfKey(key_extra(request[w]), key[w])
           IN  /\ ms # {}
               /\ \A m \in ms : /\ cmin[w] = m
                                /\ MinuteOf(now) < m + minutes + 1

C8_NoDelete ==
    \A k \in DOMAIN cache : k \notin DOMAIN cache' => cache[k].exp <= now'

C8_BucketLifetime ==
    /\ [](\A w \in Workers : C8_InWindow(w))
    /\ [][C8_NoDelete]_vars

\* a window is about to be read after an earlier bucket of the same
\* identity has outlived its window and its slack and has left the store
C8_Witness ==
    \E w \in Workers :
        /\ pc[w] = "get_many"
        /\ \E m \in MinuteRange :
               /\ HitsAt(Identity(request[w]), m) > 0
               /\ MinuteOf(now) >= m + minutes + 1
               /\ BucketKey(key_extra(request[w]), 60 * m) \notin DOMAIN cache

-----------------------------------------------------------------------------
(* C9 (as stated): an applicable request whose source address or           *)
(* designated field value is missing never fails in key derivation, under  *)
(* any of the three key-derivation variants, with or without a key field:  *)
(* its evaluation ends with Allow or Deny.                                 *)
MissingPart(req) ==
    \/ "REMOTE_ADDR" \notin DOMAIN req.META
    \/ (Truthy(key_field) /\ key_field \notin DOMAIN req.POST)

C9_AsStated ==
    \A w \in Workers :
        (pc[w] = "done" /\ Applicable(request[w]) /\ MissingPart(request[w]))
            => (Allowed(w) \/ Denied(w))

-----------------------------------------------------------------------------
(* C10 (as stated): a limiter whose policy is misconfigured                *)
(* (maxRequests < 1 or windowMinutes < 1) never evaluates a request.       *)
C10_AsStated ==
    (minutes < 1 \/ requests < 1) => started = 0

-----------------------------------------------------------------------------
(* C11: when a store call of an applicable request fails, in the bulk read *)
(* or in the increment, the evaluation ends with the exception, which is   *)
(* neither Allow nor Deny: the wrapped view is not called and no rejection *)
(* is produced.  When it is the bulk read that fails, the evaluation has   *)
(* made no other store call and no counter has been created or raised (a   *)
(* counter may only have expired meanwhile).                               *)
\* a step of worker w that ends its evaluation inside a store call which
\* has not completed
FailingStep(w) ==
    pc[w] \in StoreCalls /\ pc'[w] = "done" /\ hits' = hits

C11_Step ==
    \A w \in Workers :
        (FailingStep(w) /\ Applicable(request[w])) =>
            /\ outcome'[w] \notin {"fn", "forbidden"}
            /\ fn_calls'[w] = 0
            /\ pc[w] = "get_many" =>
                   /\ ops[w] = 0
                   /\ key'[w] = ""
                   /\ cache' = cache
                   /\ \A k \in DOMAIN cache :
                          k \in DOMAIN before[w] /\ cache[k] = before[w][k]

C11_FailurePropagates == [][C11_Step]_vars

\* the bulk read fails for a key that is at its limit; the increment fails
\* for a request that would have been allowed
C11_Witness ==
    \E w \in Workers :
        /\ pc[w] = "done" /\ Applicable(request[w])
        /\ \/ /\ outcome[w] = "raised in get_many"
              /\ WindowSum(cache, KeySet(w)) >= requests
           \/ /\ outcome[w] \in {"raised in incr", "raised in set"}
              /\ DictSum(counts[w]) < requests

-----------------------------------------------------------------------------
(* C12: on the fallback path (get, then set) a concurrent increment may be *)
(* lost, and only by interleaving.  The counters are exact when every      *)
(* bucket in the store holds the number of completed increments of its     *)
(* identity and minute.  A step that makes exact counters inexact is the   *)
(* set of a request whose get returned a value the store no longer holds,  *)
(* that is, another request's set of the same bucket came between this     *)
(* request's get and its set; the counter then falls short of the          *)
(* completed increments.  Where no get and set of different requests       *)
(* interleave, the counters stay exact.                                    *)
CountersExact ==
    /\ \A h \in DOMAIN hits :
           BucketOfHit(h) \in DOMAIN cache => cache[BucketOfHit(h)].val = hits[h]
    /\ \A k \in DOMAIN cache : \E h \in DOMAIN hits : k = BucketOfHit(h)

\* the value worker w read is not the value of the store any more
StaleRead(w) == pc[w] = "set" /\ got[w] # ValueIn(cache, key[w])

C12_Step ==
    (CountersExact /\ ~CountersExact') =>
        \E w \in Workers :
            /\ StaleRead(w)
            /\ pc'[w] = "done"
            /\ cache'[key[w]].val < HitsAt(Identity(request[w]), cmin[w]) + 1

C12_LostOnlyByInterleaving == [][C12_Step]_vars

\* both requests were evaluated, for the same bucket, and the counter has
\* risen by 1 only
C12_Witness ==
    /\ pc[1] = "done" /\ pc[2] = "done"
    /\ key[1] = key[2] /\ got[1] = got[2]
    /\ cache[key[1]].val = got[1] + 1
    /\ HitsAt(Identity(request[1]), cmin[1]) >= got[1] + 2

-----------------------------------------------------------------------------
(* C13 (as stated): a bucket's counter does not exist before the first     *)
(* cache_incr for it, is created by that cache_incr with a removal time    *)
(* (windowMinutes + 1) * 60 seconds later, keeps that removal time         *)
(* however many further increments it receives, and is in the store        *)
(* exactly until that time, on either increment path.                      *)
C13_Step ==
    /\ \A k \in DOMAIN cache' \ DOMAIN cache :
           /\ \E w \in Workers : key[w] = k /\ pc[w] \in {"add", "set"}
           /\ cache'[k].exp = now + (minutes + 1) * 60
    /\ \A k \in DOMAIN cache' \cap DOMAIN cache :
           cache'[k].exp = cache[k].exp
    /\ \A k \in DOMAIN cache \ DOMAIN cache' : cache[k].exp <= now'
    /\ \A k \in DOMAIN cache' : now' < cache'[k].exp

C13_AsStated == [][C13_Step]_vars

\* the same on the atomic path alone
C13_OnAtomicPath == [][backend = "memcached" => C13_Step]_vars

-----------------------------------------------------------------------------
(* C14 (as stated): within one evaluation the bucket that is incremented   *)
(* is the first (offset 0) key of the window that was read for the         *)
(* decision, also when the clock passes into the next minute during the    *)
(* evaluation.                                                             *)
C14_AsStated ==
    \A w \in Workers :
        (pc[w] \in {"add", "incr", "get", "set", "done"} /\ key[w] # "") =>
            /\ key[w] = keys[w][1]
            /\ cmin[w] = kmin[w]

-----------------------------------------------------------------------------
(* C15: no false denial.  In every reachable state, with two workers       *)
(* interleaving freely with each other and with the clock and the store's  *)
(* expiry, on either increment path: for every identity and every window   *)
(* of windowMinutes consecutive minutes, the sum of the identity's         *)
(* counters over the window is at most the number of its requests whose    *)
(* increment was made in those minutes; and a denied request was preceded, *)
(* when it read its window, by at least maxRequests counted requests of    *)
(* its identity in the minutes of that window.                             *)
RECURSIVE CountIn(_, _, _)
\* the sum of the counters of key-extra e over the n minutes that end with m
CountIn(e, m, n) ==
    IF n = 0 THEN 0
    ELSE (IF m \in Minutes THEN ValueIn(cache, Buckets[e, m]) ELSE 0)
             + CountIn(e, m - 1, n - 1)

\* Every counter above 0 is the bucket of an identity and a minute with a
\* counted request, so the windows to compare are those that hold such a
\* minute; over any other window the sum is 0.
C15_NoFalseDenial ==
    /\ \A k \in DOMAIN cache :
           cache[k].val > 0 =>
               \E h \in DOMAIN hits : k = BucketOfHit(h)
    /\ \A h \in DOMAIN hits :
           LET e == ExtraOf(h[1])
           IN  \A m \in h[2]..(h[2] + minutes - 1) :
                   CountIn(e, m, minutes) <= HitsIn(h[1], m, minutes)
    /\ \A w \in Workers :
           (pc[w] = "done" /\ Denied(w)) => prior[w] >= requests

\* a request is denied while the other worker is inside its own evaluation
\* for the same identity
C15_Witness ==
    \E w, v \in Workers :
        /\ pc[w] = "done" /\ Denied(w) /\ prior[w] = requests
        /\ Busy(v) /\ request[v] = request[w]

-----------------------------------------------------------------------------
(* C16: when requests are evaluated one at a time, for every identity and  *)
(* every span of windowMinutes consecutive minutes, at most maxRequests of *)
(* the identity's requests counted in the span were allowed, whatever the  *)
(* sequence of requests and clock ticks.  (A span without an allowed       *)
(* request has none; the others hold a minute of DOMAIN passed.)           *)
C16_AtMostLimitAllowed ==
    \A h \in DOMAIN passed : \A m \in h[2]..(h[2] + minutes - 1) :
        PassedIn(h[1], m, minutes) <= requests

\* a span of two minutes in which two requests were allowed, one in each
\* minute, and a third one was denied
C16_Witness ==
    /\ minutes = 2
    /\ \E h \in DOMAIN passed :
           /\ PassedAt(h[1], h[2]) = 1 /\ PassedAt(h[1], h[2] - 1) = 1
           /\ HitsIn(h[1], h[2], 2) = 3

-----------------------------------------------------------------------------
(* C17: the window is read and the counter is raised by separate store     *)
(* calls, so workers that interleave can let more than maxRequests         *)
(* requests through, but boundedly.  With P workers, each evaluating one   *)
(* request at a time, on the atomic path: for every identity and every     *)
(* minute, at most maxRequests + P - 1 of the identity's requests counted  *)
(* in that minute were allowed.                                            *)
C17_BoundedOvershoot ==
    backend = "memcached" =>
        \A h \in DOMAIN passed :
            passed[h] <= requests + Cardinality(Workers) - 1

\* two workers have let maxRequests + 1 requests of one identity through
\* within one minute
C17_Witness ==
    /\ backend = "memcached"
    /\ Cardinality(Workers) = 2
    /\ \E h \in DOMAIN passed : passed[h] = requests + 1

-----------------------------------------------------------------------------
(* C18: expiry never makes the limiter under-count inside the window.      *)
(* When an evaluation has read its window, taken in minute n, every bucket *)
(* of its identity that was incremented in one of the minutes              *)
(* n - windowMinutes + 1 .. n (so that n lies in m .. m + windowMinutes -  *)
(* 1 for the bucket's minute m) was found in the store, with the number of *)
(* its completed increments as its value.                                  *)
C18_NoUnderCount ==
    \A w \in Workers :
        pc[w] = "current_key" =>
            \A i \in 1..minutes :
                LET n == HitsAt(Identity(request[w]), kmin[w] - (i - 1))
                IN  n > 0 => /\ keys[w][i] \in DOMAIN counts[w]
                             /\ counts[w][keys[w][i]] = n

\* the bucket of the minute before was read in its slack minute, the clock
\* having passed on during the evaluation
C18_Witness ==
    \E w \in Workers :
        /\ pc[w] = "current_key" /\ minutes = 2
        /\ HitsAt(Identity(request[w]), kmin[w] - 1) > 0
        /\ keys[w][2] \in DOMAIN counts[w]
        /\ MinuteOf(now) = kmin[w] + 1

-----------------------------------------------------------------------------
(* C19: recovery after silence.  With maxRequests >= 1 and requests        *)
(* evaluated one at a time: a request of an identity none of whose         *)
(* requests was counted in the windowMinutes minutes that end with the     *)
(* minute of its window is allowed, whatever was counted or denied before  *)
(* and whatever the store still holds; a request of an identity with at    *)
(* least maxRequests requests counted in those minutes is denied; and a    *)
(* denied request is itself counted, in the store and in no way as         *)
(* allowed, so that requests that keep coming keep the identity denied.    *)
C19_RecoveryAfterSilence ==
    \A w \in Workers :
        (Decided(w) /\ requests >= 1) =>
            LET id == Identity(request[w])
            IN  /\ prior[w] = 0 => Allowed(w)
                /\ prior[w] >= requests => Denied(w)
                /\ Denied(w) =>
                       /\ key[w] \in DOMAIN cache
                       /\ cache[key[w]].val = HitsAt(id, cmin[w])
                       /\ HitsAt(id, cmin[w]) > PassedAt(id, cmin[w])

\* a request is allowed after a minute of silence, while the bucket of an
\* earlier minute, in which a request of its identity was denied, is still
\* in the store
C19_Witness ==
    \E w \in Workers :
        /\ Decided(w) /\ Allowed(w) /\ prior[w] = 0
        /\ \E m \in Minutes :
               LET id == Identity(request[w])
               IN  /\ m < kmin[w]
                   /\ HitsAt(id, m) > PassedAt(id, m)
                   /\ BucketOfHit(<<id, m>>) \in DOMAIN cache
====
